---- MODULE Spec2Model ----
(***************************************************************************)
(* BooksManage (main.js): a Node HTTP server that keeps book records in    *)
(* one JSON array file (book.json) and one text file per record            *)
(* (book_<ordinal>.txt), both addressed by array position.                 *)
(*                                                                         *)
(* Strings are sequences of one-character strings, so that trim, the date  *)
(* regular expression and parseInt are computed character by character.    *)
(***************************************************************************)
EXTENDS Integers, Sequences, FiniteSets, TLC

\* Largest number of records the collection is allowed to grow to.
MaxBooks == 3

VARIABLES
    bookJson,   \* book.json on disk: missing, unparseable, or a JSON array
    files,      \* the directory of text files: ordinal -> content or NoFile
    pending,    \* fs.readFile / fs.writeFile calls issued and not yet completed
    last,       \* the last completed exchange: request, response, state before it
    vData,      \* argument of a direct call of validateBookData
    vErrors,    \* its result
    arriving,   \* requests whose body is still being received ('end' not yet emitted)
    log,        \* the completed exchanges of the requests that change the collection
    lastIo      \* what the storage did during the step of the last exchange

vars == <<bookJson, files, pending, last, vData, vErrors, arriving, log, lastIo>>

\* The variables that only some of the specifications below use.
aux == <<arriving, log, lastIo>>

----------------------------------------------------------------------------
\* Strings and the JavaScript built-ins the handlers use.

Digits == {"0", "1", "2", "3", "4", "5", "6", "7", "8", "9"}

DigitVal(c) ==
    CASE c = "0" -> 0 [] c = "1" -> 1 [] c = "2" -> 2 [] c = "3" -> 3
      [] c = "4" -> 4 [] c = "5" -> 5 [] c = "6" -> 6 [] c = "7" -> 7
      [] c = "8" -> 8 [] c = "9" -> 9

IsWhite(c) == c = " "

RECURSIVE TrimStart(_)
TrimStart(s) ==
    IF s # <<>> /\ IsWhite(Head(s)) THEN TrimStart(Tail(s)) ELSE s

RECURSIVE TrimEnd(_)
TrimEnd(s) ==
    IF s # <<>> /\ IsWhite(s[Len(s)]) THEN TrimEnd(SubSeq(s, 1, Len(s) - 1)) ELSE s

\* String.prototype.trim
Trim(s) == TrimEnd(TrimStart(s))

\* /^\d{4}-\d{2}-\d{2}$/.test(s)
DateRegexTest(s) ==
    /\ Len(s) = 10
    /\ \A i \in 1..10 : IF i \in {5, 8} THEN s[i] = "-" ELSE s[i] \in Digits

\* A parsed JSON object is a function from the keys it has to string values.
Has(data, k) == k \in DOMAIN data

\* !data.k : the key is absent (undefined) or holds the empty string
Falsy(data, k) == ~Has(data, k) \/ data[k] = <<>>

\* The four messages of validateBookData, in the order the code pushes them.
ErrBook == "book_name_empty"
ErrAuthor == "author_empty"
ErrSummary == "summary_empty"
ErrDate == "date_format"

\* validateBookData returning at the first rule that fails
validateFirstOnly(data) ==
    IF Falsy(data, "book") \/ Trim(data["book"]) = <<>> THEN <<ErrBook>>
    ELSE IF Falsy(data, "author") \/ Trim(data["author"]) = <<>> THEN <<ErrAuthor>>
    ELSE IF Falsy(data, "summary") \/ Trim(data["summary"]) = <<>> THEN <<ErrSummary>>
    ELSE IF Falsy(data, "subDate") \/ ~DateRegexTest(data["subDate"]) THEN <<ErrDate>>
    ELSE <<>>

validateBookData(data) ==
    LET e1 == IF Falsy(data, "book") \/ Trim(data["book"]) = <<>>
              THEN <<ErrBook>> ELSE <<>>
        e2 == IF Falsy(data, "author") \/ Trim(data["author"]) = <<>>
              THEN <<ErrAuthor>> ELSE <<>>
        e3 == IF Falsy(data, "summary") \/ Trim(data["summary"]) = <<>>
              THEN <<ErrSummary>> ELSE <<>>
        e4 == IF Falsy(data, "subDate") \/ ~DateRegexTest(data["subDate"])
              THEN <<ErrDate>> ELSE <<>>
    IN  e1 \o e2 \o e3 \o e4

\* A number as parseInt returns it: NaN, or an integer.
NaN == [nan |-> TRUE, n |-> 0]
Num(k) == [nan |-> FALSE, n |-> k]

RECURSIVE DigitPrefix(_, _, _)
\* The value of the longest prefix of digits of s: acc so far, any says a digit was seen.
DigitPrefix(s, acc, any) ==
    IF s # <<>> /\ Head(s) \in Digits
    THEN DigitPrefix(Tail(s), 10 * acc + DigitVal(Head(s)), TRUE)
    ELSE [any |-> any, val |-> acc]

\* parseInt(s): leading white space, an optional sign, then decimal digits;
\* NaN when no digit follows.
parseInt(s) ==
    LET t == TrimStart(s)
        neg == t # <<>> /\ Head(t) = "-"
        u == IF t # <<>> /\ Head(t) \in {"-", "+"} THEN Tail(t) ELSE t
        d == DigitPrefix(u, 0, FALSE)
    IN  IF d.any THEN Num(IF neg THEN 0 - d.val ELSE d.val) ELSE NaN

\* index < k and index >= k in JavaScript: every comparison with NaN is false.
NumLt(index, k) == ~index.nan /\ index.n < k
NumGe(index, k) == ~index.nan /\ index.n >= k

\* /^\d+$/ on the index segment, the part of the content routes' pattern
\* /^\/api\/books\/\d+\/content$/ that varies.
AllDigits(seg) == seg # <<>> /\ \A i \in 1..Len(seg) : seg[i] \in Digits

Min(a, b) == IF a < b THEN a ELSE b
Max(a, b) == IF a > b THEN a ELSE b

\* books.splice(index + 1, 1) for an index in range
SpliceNext(books, index) ==
    LET start == Min(IF index.nan THEN 1 ELSE index.n + 1, Len(books))
        cnt == Min(1, Len(books) - start)
    IN  [removed |-> SubSeq(books, start + 1, start + cnt),
         rest |-> SubSeq(books, 1, start) \o SubSeq(books, start + cnt + 1, Len(books))]

\* books.splice(index, 1): the start is NaN -> 0, negative -> counted from the
\* end, clamped to the length; returns the removed elements and what is left.
Splice1(books, index) ==
    LET rel == IF index.nan THEN 0 ELSE index.n
        start == IF rel < 0 THEN Max(Len(books) + rel, 0) ELSE Min(rel, Len(books))
        cnt == Min(1, Len(books) - start)
    IN  [removed |-> SubSeq(books, start + 1, start + cnt),
         rest |-> SubSeq(books, 1, start) \o SubSeq(books, start + cnt + 1, Len(books))]

\* books.splice(index, 0, v): the element is put in front of the one at index.
ArrayInsert(books, index, v) ==
    IF ~index.nan /\ index.n >= 0 /\ index.n < Len(books)
    THEN SubSeq(books, 1, index.n) \o <<v>> \o SubSeq(books, index.n + 1, Len(books))
    ELSE books

\* books[index] = v. An integer index inside the array replaces the element;
\* the key NaN becomes an ordinary property, which JSON.stringify of an array
\* does not write.
ArrayAssign(books, index, v) ==
    IF ~index.nan /\ index.n >= 0 /\ index.n < Len(books)
    THEN [books EXCEPT ![index.n + 1] = v]
    ELSE books

----------------------------------------------------------------------------
\* The two stores.

\* book.json: kind is "missing", "corrupt" (not parseable) or "json".
Missing == [kind |-> "missing", books |-> <<>>]
Corrupt == [kind |-> "corrupt", books |-> <<>>]
Json(books) == [kind |-> "json", books |-> books]

\* What an I/O step of a request may meet.
IoKinds == {"ok", "readFails", "saveFails", "saveTruncates", "blobFails"}

\* readBooks(): the parsed array, or [] when the file cannot be read or parsed.
readBooks(bj, io) ==
    IF bj.kind = "json" /\ io # "readFails" THEN bj.books ELSE <<>>

\* writeBooks that returns true whatever writeFileSync did.
writeBooksSwallow(bj, books, io) ==
    CASE io = "saveFails" -> [ok |-> TRUE, file |-> bj]
      [] io = "saveTruncates" -> [ok |-> TRUE, file |-> Corrupt]
      [] OTHER -> [ok |-> TRUE, file |-> Json(books)]

\* writeBooks(books): ok is the value returned, file is book.json afterwards.
\* A failing writeFileSync leaves the old file or, when it fails after the
\* file was opened for writing, an empty one, which does not parse.
writeBooks(bj, books, io) ==
    CASE io = "saveFails" -> [ok |-> FALSE, file |-> bj]
      [] io = "saveTruncates" -> [ok |-> FALSE, file |-> Corrupt]
      [] OTHER -> [ok |-> TRUE, file |-> Json(books)]

\* A text file of the directory: absent, or present with its content.
NoFile == [exists |-> FALSE, content |-> <<>>]
File(c) == [exists |-> TRUE, content |-> c]

\* Ordinals of the text files the model can hold.
Ordinals == 1..MaxBooks

\* `book_${index + 1}.txt`, named by the number in it.
bookFilePath(index) == IF index.nan THEN NaN ELSE Num(index.n + 1)

\* The file at a path; a name no request can create does not exist.
FileAt(fs, p) == IF ~p.nan /\ p.n \in DOMAIN fs THEN fs[p.n] ELSE NoFile

RECURSIVE NumToString(_)
\* `${k}` for an integer k >= 0
NumToString(k) ==
    LET d == <<"0", "1", "2", "3", "4", "5", "6", "7", "8", "9">>[(k % 10) + 1]
    IN  IF k < 10 THEN <<d>> ELSE Append(NumToString(k \div 10), d)

\* `This is book NO.${bookIndex - 1}`
PlaceholderZeroBased(bookIndex) == <<"This is book NO.">> \o NumToString(bookIndex - 1)

\* `This is book NO.${bookIndex}`
Placeholder(bookIndex) == <<"This is book NO.">> \o NumToString(bookIndex)

----------------------------------------------------------------------------
\* Requests and responses.

\* A request body: text that JSON.parse rejects, or the object it yields.
BadJson == [json |-> FALSE, val |-> <<>>]
JsonBody(obj) == [json |-> TRUE, val |-> obj]
NoBody == [json |-> FALSE, val |-> <<>>]

\* The responses of the handlers (status and the JSON envelope).
RespErrors(errors) == [status |-> 400, success |-> FALSE, errors |-> errors]
RespInvalidJson == [status |-> 400, success |-> FALSE, message |-> "invalid_json"]
RespCreated(book) ==
    [status |-> 201, success |-> TRUE, message |-> "book_added", data |-> book]
RespSaveFailed == [status |-> 500, success |-> FALSE, message |-> "save_failed"]
RespNoBook == [status |-> 404, success |-> FALSE, message |-> "book_not_found"]
\* JSON.stringify leaves out a data key whose value is undefined.
RespDeleted(removed) ==
    IF removed = <<>>
    THEN [status |-> 200, success |-> TRUE, message |-> "book_deleted"]
    ELSE [status |-> 200, success |-> TRUE, message |-> "book_deleted",
          data |-> removed[1]]
RespDeleteFailed == [status |-> 500, success |-> FALSE, message |-> "delete_failed"]
RespUpdated(book) ==
    [status |-> 200, success |-> TRUE, message |-> "book_updated", data |-> book]
RespUpdateFailed == [status |-> 500, success |-> FALSE, message |-> "update_failed"]
RespList(books) == [status |-> 200, success |-> TRUE, data |-> books]
RespNoFileSync == [status |-> 404, success |-> FALSE, message |-> "file_missing"]
RespReadFailed == [status |-> 500, success |-> FALSE, message |-> "read_failed"]
RespNoFileAsync ==
    [status |-> 404, success |-> FALSE, message |-> "file_missing_or_read_failed"]
RespContent(mode, content) ==
    [status |-> 200, success |-> TRUE, mode |-> mode, content |-> content]
RespEmptyContent == [status |-> 400, success |-> FALSE, message |-> "content_empty"]
RespWriteFailed == [status |-> 500, success |-> FALSE, message |-> "write_failed"]
RespWritten == [status |-> 200, success |-> TRUE, message |-> "content_written"]
RespNoRoute == [status |-> 404, success |-> FALSE, message |-> "no_such_api"]

\* The query parameter mode: absent, or a string.
NoMode == [given |-> FALSE, val |-> <<>>]
Mode(m) == [given |-> TRUE, val |-> m]
SyncWord == <<"s", "y", "n", "c">>
AsyncWord == <<"a", "s", "y", "n", "c">>

\* query.mode || 'async'
ModeOf(q) == IF q.given /\ q.val # <<>> THEN q.val ELSE AsyncWord

\* A completed exchange: the request, the response, and both stores as they
\* were when the step that answered began.
Exchange(op, seg, body, q, resp) ==
    [op |-> op, seg |-> seg, body |-> body, query |-> q, resp |-> resp,
     preJson |-> bookJson, preFiles |-> files]

NoExchange ==
    [op |-> "none", seg |-> <<>>, body |-> NoBody, query |-> NoMode,
     resp |-> [status |-> 0, success |-> FALSE],
     preJson |-> Missing, preFiles |-> [o \in Ordinals |-> NoFile]]

----------------------------------------------------------------------------
\* The steps of the handlers that the stores and the responses depend on.

\* books.unshift(newBook)
unshiftBook(books, newBook) == <<newBook>> \o books

\* books.push(newBook)
pushBook(books, newBook) == Append(books, newBook)

\* The delete that also renames every later file down by one ordinal.
unlinkAndRename(fs, path) ==
    IF path.nan \/ path.n \notin DOMAIN fs THEN fs
    ELSE [o \in DOMAIN fs |->
            IF o < path.n THEN fs[o]
            ELSE IF o + 1 \in DOMAIN fs THEN fs[o + 1] ELSE NoFile]

\* The unlink of `book_${index}.txt`, the file one ordinal below.
unlinkZeroBased(fs, path) ==
    IF ~path.nan /\ FileAt(fs, Num(path.n - 1)).exists
    THEN [fs EXCEPT ![path.n - 1] = NoFile]
    ELSE fs

\* if (fs.existsSync(bookFilePath)) fs.unlinkSync(bookFilePath)
unlinkBookFile(fs, path) ==
    IF FileAt(fs, path).exists THEN [fs EXCEPT ![path.n] = NoFile] ELSE fs

\* fs.writeFile(bookFilePath, content, {flag: 'a'})
appendFile(fs, path, content) ==
    [fs EXCEPT ![path.n] = File(FileAt(fs, path).content \o content)]

\* fs.writeFile(bookFilePath, content, 'utf8'): creates or replaces the file
writeFile(fs, path, content) == [fs EXCEPT ![path.n] = File(content)]

\* content === undefined
contentUndefined(obj) == ~Has(obj, "content")

\* !content
contentMissing(obj) == Falsy(obj, "content")

\* The synchronous read without its existsSync test: readFileSync throws.
readContentSyncUnchecked(fs, path, io) ==
    IF ~FileAt(fs, path).exists \/ io = "readFails" THEN RespReadFailed
    ELSE RespContent("sync", FileAt(fs, path).content)

\* The synchronous branch of the content read.
readContentSync(fs, path, io) ==
    IF ~FileAt(fs, path).exists THEN RespNoFileSync
    ELSE IF io = "readFails" THEN RespReadFailed
    ELSE RespContent("sync", FileAt(fs, path).content)

\* The callback of the asynchronous branch: any error answers 404.
readContentAsync(fs, path, io) ==
    IF ~FileAt(fs, path).exists \/ io = "readFails" THEN RespNoFileAsync
    ELSE RespContent("async", FileAt(fs, path).content)

\* The update handler with the bounds test moved before the validation.
updateDecisionBoundsFirst(errors, index, books) ==
    IF NumLt(index, 0) \/ NumGe(index, Len(books)) THEN "notFound"
    ELSE IF errors # <<>> THEN "errors"
    ELSE "replace"

\* The order in which the update handler decides its answer.
updateDecision(errors, index, books) ==
    IF errors # <<>> THEN "errors"
    ELSE IF NumLt(index, 0) \/ NumGe(index, Len(books)) THEN "notFound"
    ELSE "replace"

----------------------------------------------------------------------------
\* The handlers. Each action is one callback of the server, run to its end.

\* GET /api/books that writes an empty collection when it could not read one.
ListBooksRepairing(io) ==
    /\ last' = Exchange("list", <<>>, NoBody, NoMode, RespList(readBooks(bookJson, io)))
    /\ bookJson' = IF bookJson.kind = "json" /\ io # "readFails" THEN bookJson
                   ELSE Json(<<>>)
    /\ UNCHANGED <<files, pending, vData, vErrors>>

\* GET /api/books
ListBooks(io) ==
    /\ last' = Exchange("list", <<>>, NoBody, NoMode, RespList(readBooks(bookJson, io)))
    /\ UNCHANGED <<bookJson, files, pending, vData, vErrors>>

\* POST /api/books, the 'end' callback.
CreateBook(body, io) ==
    IF ~body.json
    THEN /\ last' = Exchange("create", <<>>, body, NoMode, RespInvalidJson)
         /\ UNCHANGED <<bookJson, files, pending, vData, vErrors>>
    ELSE
    LET newBook == body.val
        errors == validateBookData(newBook)
        books == pushBook(readBooks(bookJson, io), newBook)
        saved == writeBooks(bookJson, books, io)
        bookIndex == Len(books)
    IN  IF errors # <<>>
        THEN /\ last' = Exchange("create", <<>>, body, NoMode, RespErrors(errors))
             /\ UNCHANGED <<bookJson, files, pending, vData, vErrors>>
        ELSE /\ bookIndex <= MaxBooks
             /\ bookJson' = saved.file
             /\ IF ~saved.ok
                THEN /\ files' = files
                     /\ last' = Exchange("create", <<>>, body, NoMode, RespSaveFailed)
                ELSE IF io = "blobFails"
                \* writeFileSync throws inside the try block: the catch answers
                THEN /\ files' = files
                     /\ last' = Exchange("create", <<>>, body, NoMode, RespInvalidJson)
                ELSE /\ files' = [files EXCEPT ![bookIndex] = File(Placeholder(bookIndex))]
                     /\ last' = Exchange("create", <<>>, body, NoMode, RespCreated(newBook))
             /\ UNCHANGED <<pending, vData, vErrors>>

\* DELETE /api/books/:index
DeleteBook(seg, io) ==
    LET index == parseInt(seg)
        books == readBooks(bookJson, io)
        cut == Splice1(books, index)
        saved == writeBooks(bookJson, cut.rest, io)
        path == bookFilePath(index)
    IN  IF NumLt(index, 0) \/ NumGe(index, Len(books))
        THEN /\ last' = Exchange("delete", seg, NoBody, NoMode, RespNoBook)
             /\ UNCHANGED <<bookJson, files, pending, vData, vErrors>>
        ELSE /\ bookJson' = saved.file
             /\ IF saved.ok
                THEN /\ files' = unlinkBookFile(files, path)
                     /\ last' = Exchange("delete", seg, NoBody, NoMode,
                                         RespDeleted(cut.removed))
                ELSE /\ files' = files
                     /\ last' = Exchange("delete", seg, NoBody, NoMode, RespDeleteFailed)
             /\ UNCHANGED <<pending, vData, vErrors>>

\* PUT /api/books/:index, the 'end' callback.
UpdateBook(seg, body, io) ==
    IF ~body.json
    THEN /\ last' = Exchange("update", seg, body, NoMode, RespInvalidJson)
         /\ UNCHANGED <<bookJson, files, pending, vData, vErrors>>
    ELSE
    LET index == parseInt(seg)
        updatedBook == body.val
        errors == validateBookData(updatedBook)
        books == readBooks(bookJson, io)
        saved == writeBooks(bookJson, ArrayAssign(books, index, updatedBook), io)
        decision == updateDecision(errors, index, books)
    IN  IF decision = "errors"
        THEN /\ last' = Exchange("update", seg, body, NoMode, RespErrors(errors))
             /\ UNCHANGED <<bookJson, files, pending, vData, vErrors>>
        ELSE IF decision = "notFound"
        THEN /\ last' = Exchange("update", seg, body, NoMode, RespNoBook)
             /\ UNCHANGED <<bookJson, files, pending, vData, vErrors>>
        ELSE /\ bookJson' = saved.file
             /\ last' = Exchange("update", seg, body, NoMode,
                                 IF saved.ok THEN RespUpdated(updatedBook)
                                 ELSE RespUpdateFailed)
             /\ UNCHANGED <<files, pending, vData, vErrors>>

\* GET /api/books/:index/content?mode=...
\* A path the pattern does not match reaches the final 404 of the server.
GetContent(seg, q, io) ==
    LET index == parseInt(seg)
        mode == ModeOf(q)
        path == bookFilePath(index)
    IN  IF ~AllDigits(seg)
        THEN /\ last' = Exchange("read", seg, NoBody, q, RespNoRoute)
             /\ UNCHANGED <<bookJson, files, pending, vData, vErrors>>
        ELSE IF mode = SyncWord
        THEN /\ last' = Exchange("read", seg, NoBody, q, readContentSync(files, path, io))
             /\ UNCHANGED <<bookJson, files, pending, vData, vErrors>>
        ELSE /\ pending' = pending \cup
                    {[call |-> "readFile", path |-> path, content |-> <<>>,
                      seg |-> seg, body |-> NoBody, query |-> q]}
             /\ last' = NoExchange
             /\ UNCHANGED <<bookJson, files, vData, vErrors>>

\* The callback of fs.readFile.
ReadFileDone(call, io) ==
    /\ call \in pending
    /\ call.call = "readFile"
    /\ pending' = pending \ {call}
    /\ last' = Exchange("read", call.seg, call.body, call.query,
                        readContentAsync(files, call.path, io))
    /\ UNCHANGED <<bookJson, files, vData, vErrors>>

\* POST /api/books/:index/content, the 'end' callback.
PostContent(seg, body) ==
    LET index == parseInt(seg)
        path == bookFilePath(index)
    IN  IF ~AllDigits(seg)
        THEN /\ last' = Exchange("write", seg, body, NoMode, RespNoRoute)
             /\ UNCHANGED <<bookJson, files, pending, vData, vErrors>>
        ELSE IF ~body.json
        THEN /\ last' = Exchange("write", seg, body, NoMode, RespInvalidJson)
             /\ UNCHANGED <<bookJson, files, pending, vData, vErrors>>
        ELSE IF contentMissing(body.val)
        THEN /\ last' = Exchange("write", seg, body, NoMode, RespEmptyContent)
             /\ UNCHANGED <<bookJson, files, pending, vData, vErrors>>
        ELSE /\ path.n \in Ordinals
             /\ pending' = pending \cup
                    {[call |-> "writeFile", path |-> path, content |-> body.val["content"],
                      seg |-> seg, body |-> body, query |-> NoMode]}
             /\ last' = NoExchange
             /\ UNCHANGED <<bookJson, files, vData, vErrors>>

\* fs.writeFile completes and its callback runs.
WriteFileDone(call, io) ==
    /\ call \in pending
    /\ call.call = "writeFile"
    /\ pending' = pending \ {call}
    /\ IF io = "blobFails"
       THEN /\ files' = files
            /\ last' = Exchange("write", call.seg, call.body, call.query, RespWriteFailed)
       ELSE /\ files' = writeFile(files, call.path, call.content)
            /\ last' = Exchange("write", call.seg, call.body, call.query, RespWritten)
    /\ UNCHANGED <<bookJson, vData, vErrors>>

----------------------------------------------------------------------------
\* The inputs the requests are drawn from.

DateOk == <<"2", "0", "2", "4", "-", "0", "1", "-", "0", "1">>
DateNoCalendar == <<"2", "0", "2", "4", "-", "1", "3", "-", "9", "9">>
DateShort == <<"2", "0", "2", "4", "-", "1", "-", "1">>

BookA == [book |-> <<"A">>, author |-> <<"B">>, summary |-> <<"C">>, subDate |-> DateOk]
BookB == [book |-> <<" ", "D">>, author |-> <<"E">>, summary |-> <<"F">>,
          subDate |-> DateNoCalendar]
\* no title, blank author, date in the wrong format
BookBad == [author |-> <<" ">>, summary |-> <<"C">>, subDate |-> DateShort]

BookBodies == {JsonBody(BookA), JsonBody(BookB), JsonBody(BookBad), BadJson}
UpdateBodies == {JsonBody(BookB), JsonBody(BookBad), BadJson}

ContentX == <<"X">>
ContentBodies == {JsonBody([content |-> ContentX]), JsonBody([content |-> <<>>]), BadJson}

\* The index segment of the path: -1, 0 .. MaxBooks, and one that is no number.
IndexSegs ==
    {NumToString(k) : k \in 0..MaxBooks} \cup {<<"-", "1">>, <<"x">>}
\* Content is read and written at the positions the model holds files for.
ContentSegs == {NumToString(k) : k \in 0..(MaxBooks - 1)} \cup {<<"x">>}

Modes == {NoMode, Mode(SyncWord), Mode(AsyncWord)}

\* vErrors before validateBookData has been called.
NotCalled == <<"not_called">>

----------------------------------------------------------------------------
\* One client that awaits each response before its next request; storage
\* that does not fail.

Init ==
    /\ bookJson \in {Missing, Corrupt, Json(<<>>)}
    /\ files = [o \in Ordinals |-> NoFile]
    /\ pending = {}
    /\ last = NoExchange
    /\ vData = <<>>
    /\ vErrors = NotCalled
    /\ arriving = {}
    /\ log = <<>>
    /\ lastIo = "ok"

Idle == pending = {}

Next ==
    \/ Idle /\ ListBooks("ok") /\ UNCHANGED aux
    \/ Idle /\ \E body \in BookBodies : CreateBook(body, "ok") /\ UNCHANGED aux
    \/ Idle /\ \E seg \in IndexSegs : DeleteBook(seg, "ok") /\ UNCHANGED aux
    \/ Idle /\ \E seg \in IndexSegs, body \in UpdateBodies :
                  UpdateBook(seg, body, "ok") /\ UNCHANGED aux
    \/ Idle /\ \E seg \in ContentSegs, q \in Modes :
                  GetContent(seg, q, "ok") /\ UNCHANGED aux
    \/ Idle /\ \E seg \in ContentSegs, body \in ContentBodies :
                  PostContent(seg, body) /\ UNCHANGED aux
    \/ \E call \in pending : ReadFileDone(call, "ok") /\ UNCHANGED aux
    \/ \E call \in pending : WriteFileDone(call, "ok") /\ UNCHANGED aux

Spec == Init /\ [][Next]_vars

----------------------------------------------------------------------------
\* validateBookData called on its own, on every object built from these
\* field values (a key may also be absent).

TextValues == {<<>>, <<" ">>, <<" ", " ">>, <<" ", "A", " ">>, <<"A">>}
DateValues ==
    {<<>>, DateOk, DateNoCalendar, DateShort,
     Append(DateOk, "0"), <<" ">> \o DateOk,
     <<"2", "0", "2", "4", "/", "0", "1", "/", "0", "1">>,
     <<"2", "0", "a", "4", "-", "0", "1", "-", "0", "1">>}

\* The objects with the keys ks, every key holding one of its field's values.
ObjectsOver(ks) ==
    {f \in [ks -> TextValues \cup DateValues] :
        \A k \in ks : IF k = "subDate" THEN f[k] \in DateValues ELSE f[k] \in TextValues}

Candidates ==
    UNION {ObjectsOver(ks) : ks \in SUBSET {"book", "author", "summary", "subDate"}}

InitValidate ==
    /\ bookJson = Missing
    /\ files = [o \in Ordinals |-> NoFile]
    /\ pending = {}
    /\ last = NoExchange
    /\ vData \in Candidates
    /\ vErrors = NotCalled
    /\ arriving = {}
    /\ log = <<>>
    /\ lastIo = "ok"

Validate ==
    /\ vErrors = NotCalled
    /\ vErrors' = validateBookData(vData)
    /\ UNCHANGED <<bookJson, files, pending, last, vData>>
    /\ UNCHANGED aux

SpecValidate == InitValidate /\ [][Validate]_vars

----------------------------------------------------------------------------
\* The rules of a book record, stated on the text of each field.

\* The field is there and has a character that is not white space.
HasText(data, k) ==
    /\ k \in DOMAIN data
    /\ \E i \in 1..Len(data[k]) : data[k][i] # " "

\* The field is there and reads YYYY-MM-DD, digits only, nothing around it.
IsDateText(data, k) ==
    /\ k \in DOMAIN data
    /\ Len(data[k]) = 10
    /\ data[k][5] = "-" /\ data[k][8] = "-"
    /\ \A i \in {1, 2, 3, 4, 6, 7, 9, 10} : data[k][i] \in Digits

\* The messages of the violated rules, in the fixed order of the rules.
ExpectedErrors(data) ==
    (IF HasText(data, "book") THEN <<>> ELSE <<ErrBook>>)
    \o (IF HasText(data, "author") THEN <<>> ELSE <<ErrAuthor>>)
    \o (IF HasText(data, "summary") THEN <<>> ELSE <<ErrSummary>>)
    \o (IF IsDateText(data, "subDate") THEN <<>> ELSE <<ErrDate>>)

\* C5: validateBookData returns exactly one message per violated rule and
\* nothing else, in the order title, author, summary, date; it reports every
\* violation, and the list is empty iff all four rules hold.
C5_ValidateAllRules ==
    vErrors # NotCalled => vErrors = ExpectedErrors(vData)

\* A call that found three violations next to a date that is well formed but
\* on no calendar.
C5_Witness ==
    /\ vErrors = <<ErrBook, ErrAuthor, ErrSummary>>
    /\ "subDate" \in DOMAIN vData
    /\ vData["subDate"] = DateNoCalendar

----------------------------------------------------------------------------
\* Properties of the service, read off the last exchange.

\* What GET /api/books answers in a state whose collection file is bj.
ListAll(bj) == RespList(readBooks(bj, "ok")).data

\* The collection before and after the last exchange, as listAll shows it.
Before == ListAll(last.preJson)
After == ListAll(bookJson)

\* The position of the last request, when its path segment is a number.
Position == parseInt(last.seg).n
HasPosition == ~parseInt(last.seg).nan
InRange(p, books) == 0 <= p /\ p < Len(books)

\* Neither store was changed by the last exchange.
StoresUnchanged == bookJson = last.preJson /\ files = last.preFiles

\* C1: after a successful create, listAll returns the collection of before
\* with the created record appended: one longer, the created record last, the
\* earlier records unchanged and in their order.
C1_CreateAppends ==
    (last.op = "create" /\ last.resp.status = 201) =>
        /\ Len(After) = Len(Before) + 1
        /\ After[Len(After)] = last.body.val
        /\ last.resp.data = last.body.val
        /\ \A j \in 1..Len(Before) : After[j] = Before[j]

\* A create answered 201 on a collection that already held two records.
C1_Witness ==
    /\ last.op = "create" /\ last.resp.status = 201
    /\ Len(Before) = 2 /\ Before[1] # Before[2]

\* C2: after a successful delete(p) with 0 <= p < n, listAll returns n-1
\* records: those before p unchanged, the one at p gone, every later one moved
\* down by one; the data returned is the removed record.
C2_DeleteShifts ==
    (last.op = "delete" /\ last.resp.status = 200
        /\ HasPosition /\ InRange(Position, Before)) =>
        /\ Len(After) = Len(Before) - 1
        /\ \A j \in 1..Len(After) :
              After[j] = IF j <= Position THEN Before[j] ELSE Before[j + 1]
        /\ "data" \in DOMAIN last.resp
        /\ last.resp.data = Before[Position + 1]

\* A delete of the middle record of three, with different neighbours.
C2_Witness ==
    /\ last.op = "delete" /\ last.resp.status = 200
    /\ HasPosition /\ Position = 1
    /\ Len(Before) = 3 /\ Before[1] # Before[3]

\* The file that a content request for the last request's position addresses.
LastPath == bookFilePath(parseInt(last.seg))

\* The last request was for a content route that the server's pattern matches.
ContentRoute(op) == last.op = op /\ AllDigits(last.seg)

SyncAsked == ModeOf(last.query) = SyncWord

\* C3: content round trip. Once writeContent(p, X) has reported success, the
\* blob of p holds X and a read in either mode answers X; the blob of a
\* position is changed only by a content write, a delete or a create that
\* addresses it; and a read of an existing blob answers its content, in the
\* mode asked for.
C3_ContentRoundTrip ==
    /\ (ContentRoute("write") /\ last.resp = RespWritten) =>
          /\ FileAt(files, LastPath) = File(last.body.val["content"])
          /\ readContentSync(files, LastPath, "ok")
                = RespContent("sync", last.body.val["content"])
          /\ readContentAsync(files, LastPath, "ok")
                = RespContent("async", last.body.val["content"])
    /\ \A o \in Ordinals :
          (last.op # "none" /\ files[o] # last.preFiles[o]) =>
              \/ ContentRoute("write") /\ LastPath = Num(o)
              \/ last.op = "delete" /\ LastPath = Num(o)
              \/ last.op = "create" /\ Len(After) = o
    /\ (ContentRoute("read") /\ FileAt(last.preFiles, LastPath).exists) =>
          last.resp = RespContent(IF SyncAsked THEN "sync" ELSE "async",
                                  FileAt(last.preFiles, LastPath).content)

\* A non-blocking read that answered the content written before.
C3_Witness ==
    /\ ContentRoute("read") /\ ~SyncAsked
    /\ last.resp = RespContent("async", ContentX)

\* C4, as claimed: with three records that each have their blob, after
\* delete(1) the collection has two records and a read of the new position 1
\* answers the content of the blob that belonged to the old position 2.
C4_ShiftedRecordKeepsBlob ==
    (last.op = "delete" /\ last.resp.status = 200 /\ HasPosition /\ Position = 1
        /\ Len(Before) = 3 /\ \A o \in 1..3 : last.preFiles[o].exists) =>
        /\ Len(After) = 2
        /\ readContentSync(files, bookFilePath(Num(1)), "ok")
              = RespContent("sync", last.preFiles[3].content)
        /\ readContentAsync(files, bookFilePath(Num(1)), "ok")
              = RespContent("async", last.preFiles[3].content)

\* The last exchange was delete(1) on three records that each had their blob.
DeletedMiddleOfThree ==
    /\ last.op = "delete" /\ last.resp.status = 200 /\ HasPosition /\ Position = 1
    /\ Len(Before) = 3 /\ \A o \in 1..3 : last.preFiles[o].exists

\* C4, amended: after that delete the collection has two records, a read of
\* the new position 1 answers NotFound in both modes, because book_2.txt, the
\* file it addresses, is the one the delete removed, and the blob of the old
\* position 2, book_3.txt, is on disk unchanged under its old name.
C4_ShiftLeavesGap ==
    DeletedMiddleOfThree =>
        /\ Len(After) = 2
        /\ After[2] = Before[3]
        /\ readContentSync(files, bookFilePath(Num(1)), "ok") = RespNoFileSync
        /\ readContentAsync(files, bookFilePath(Num(1)), "ok") = RespNoFileAsync
        /\ files[3] = last.preFiles[3]
        /\ files[1] = last.preFiles[1]

\* The delete happened while the blob of the old position 2 held written text.
C4_Witness ==
    /\ DeletedMiddleOfThree
    /\ last.preFiles[3].content = ContentX

\* The body of the last update is an object that passes validation.
ValidBody == last.body.json /\ validateBookData(last.body.val) = <<>>

\* C6: update decides in this order: validation errors whatever the
\* position; otherwise NotFound for a position outside the collection;
\* otherwise the record at the position is replaced. Both failures leave the
\* collection and all blobs as they were.
C6_UpdateValidatesFirst ==
    (last.op = "update" /\ last.body.json) =>
        IF ~ValidBody
        THEN /\ last.resp = RespErrors(ExpectedErrors(last.body.val))
             /\ StoresUnchanged
        ELSE IF HasPosition /\ ~InRange(Position, Before)
        THEN /\ last.resp = RespNoBook
             /\ StoresUnchanged
        ELSE HasPosition =>
             /\ last.resp = RespUpdated(last.body.val)
             /\ After = [Before EXCEPT ![Position + 1] = last.body.val]

\* A malformed update to a position that does not exist, answered with the
\* validation errors.
C6_Witness ==
    /\ last.op = "update" /\ last.body.json /\ ~ValidBody
    /\ HasPosition /\ ~InRange(Position, Before)
    /\ last.resp.status = 400

\* The last request carried what its operation needs besides the position.
WellFormed ==
    \/ last.op = "delete"
    \/ last.op = "update" /\ ValidBody
    \/ ContentRoute("read")
    \/ ContentRoute("write") /\ last.body.json /\ ~contentMissing(last.body.val)

\* C7, as claimed: every operation that takes a position answers NotFound
\* for a position outside [0, length) and changes neither store.
C7_BoundsEverywhere ==
    (WellFormed /\ HasPosition /\ ~InRange(Position, Before)) =>
        /\ last.resp.status = 404
        /\ StoresUnchanged

\* C8: writeContent with empty content is answered 400, not the 500 of a
\* failed write, and the blob of the position is left as it was.
C8_EmptyContentRejected ==
    (ContentRoute("write") /\ last.body.json
        /\ "content" \in DOMAIN last.body.val /\ last.body.val["content"] = <<>>) =>
        /\ last.resp.status = 400
        /\ last.resp # RespWriteFailed
        /\ last.resp = RespEmptyContent
        /\ StoresUnchanged

\* Empty content sent to a position whose blob exists.
C8_Witness ==
    /\ ContentRoute("write") /\ last.body.json
    /\ "content" \in DOMAIN last.body.val /\ last.body.val["content"] = <<>>
    /\ FileAt(last.preFiles, LastPath).exists

\* C9: in both modes a read of a position whose blob file does not exist is
\* answered 404, never 500, and creates no file.
C9_MissingBlobNotFound ==
    (ContentRoute("read") /\ ~FileAt(last.preFiles, LastPath).exists) =>
        /\ last.resp.status = 404
        /\ last.resp = IF SyncAsked THEN RespNoFileSync ELSE RespNoFileAsync
        /\ StoresUnchanged

\* A blocking read of a record of the collection that has no blob.
C9_Witness ==
    /\ ContentRoute("read") /\ SyncAsked
    /\ InRange(Position, Before)
    /\ ~FileAt(last.preFiles, LastPath).exists

\* The decimal numeral of an ordinal below ten.
Numeral(n) == <<<<"1", "2", "3", "4", "5", "6", "7", "8", "9">>[n]>>

\* C10: after every successful create the blob addressed by the new record's
\* position exists and holds "This is book NO.<length>"; a create on the
\* empty collection gives length 1 and a blob at position 0 naming ordinal 1.
C10_CreatePlaceholder ==
    (last.op = "create" /\ last.resp.status = 201) =>
        /\ FileAt(files, bookFilePath(Num(Len(After) - 1)))
              = File(<<"This is book NO.">> \o Numeral(Len(After)))
        /\ Before = <<>> =>
              /\ Len(After) = 1
              /\ FileAt(files, bookFilePath(Num(0))) = File(<<"This is book NO.", "1">>)

\* A create on the empty collection, and one that replaced an older file.
C10_Witness ==
    /\ last.op = "create" /\ last.resp.status = 201
    /\ Before = <<>>
    /\ last.preFiles[1].exists

----------------------------------------------------------------------------
\* Several clients at once. The server is one Node process: a request whose
\* body is still arriving waits in `arriving`, and each callback below runs to
\* its end before the next one starts.

\* Largest number of requests that change the collection, over all clients.
MaxRequests == 2

Started == Cardinality(arriving) + Len(log)

\* A logged exchange: the exchange, its request's number, and the requests
\* that were being received while it was answered.
Logged(id, others, exchange) ==
    [id |-> id, with |-> {r.id : r \in others},
     op |-> exchange.op, seg |-> exchange.seg, body |-> exchange.body,
     resp |-> exchange.resp, preJson |-> exchange.preJson]

\* POST /api/books and PUT /api/books/:index up to `return`: the handler
\* registers its 'data' and 'end' listeners and reads nothing from the stores.
\* `seen` is the collection file at that moment; no handler looks at it.
Arrive(op, seg, body) ==
    /\ Started < MaxRequests
    /\ arriving' = arriving \cup
          {[id |-> Started + 1, op |-> op, seg |-> seg, body |-> body, seen |-> bookJson]}
    /\ UNCHANGED <<bookJson, files, pending, last, vData, vErrors, log, lastIo>>

\* The 'end' callback of a create that works on the collection as it was
\* when the request arrived (readBooks called before the body is received).
EndCreateStale(req) ==
    LET books == pushBook(readBooks(req.seen, "ok"), req.body.val)
    IN  /\ req \in arriving
        /\ req.op = "create"
        /\ validateBookData(req.body.val) = <<>>
        /\ Len(books) <= MaxBooks
        /\ bookJson' = Json(books)
        /\ files' = [files EXCEPT ![Len(books)] = File(Placeholder(Len(books)))]
        /\ last' = Exchange("create", <<>>, req.body, NoMode, RespCreated(req.body.val))
        /\ arriving' = arriving \ {req}
        /\ log' = Append(log, Logged(req.id, arriving \ {req}, last'))
        /\ UNCHANGED <<pending, vData, vErrors, lastIo>>

\* The 'end' callback of POST /api/books.
EndCreate(req) ==
    /\ req \in arriving
    /\ req.op = "create"
    /\ CreateBook(req.body, "ok")
    /\ arriving' = arriving \ {req}
    /\ log' = Append(log, Logged(req.id, arriving \ {req}, last'))
    /\ UNCHANGED lastIo

\* The 'end' callback of PUT /api/books/:index.
EndUpdate(req) ==
    /\ req \in arriving
    /\ req.op = "update"
    /\ UpdateBook(req.seg, req.body, "ok")
    /\ arriving' = arriving \ {req}
    /\ log' = Append(log, Logged(req.id, arriving \ {req}, last'))
    /\ UNCHANGED lastIo

\* DELETE /api/books/:index has no body to wait for: the handler runs at once.
DeleteNow(seg) ==
    /\ Started < MaxRequests
    /\ DeleteBook(seg, "ok")
    /\ log' = Append(log, Logged(Started + 1, arriving, last'))
    /\ UNCHANGED <<arriving, lastIo>>

ConcBodies == {JsonBody(BookA), JsonBody(BookB)}
ConcSegs == {NumToString(0), NumToString(1)}

\* The collection the clients find: empty, or one record with its blob.
InitConc ==
    /\ \/ bookJson = Json(<<>>) /\ files = [o \in Ordinals |-> NoFile]
       \/ /\ bookJson = Json(<<BookA>>)
          /\ files = [o \in Ordinals |-> IF o = 1 THEN File(Placeholder(1)) ELSE NoFile]
    /\ pending = {}
    /\ last = NoExchange
    /\ vData = <<>>
    /\ vErrors = NotCalled
    /\ arriving = {}
    /\ log = <<>>
    /\ lastIo = "ok"

NextConc ==
    \/ \E body \in ConcBodies : Arrive("create", <<>>, body)
    \/ \E seg \in ConcSegs, body \in ConcBodies : Arrive("update", seg, body)
    \/ \E req \in arriving : EndCreate(req)
    \/ \E req \in arriving : EndUpdate(req)
    \/ \E seg \in ConcSegs : DeleteNow(seg)

SpecConc == InitConc /\ [][NextConc]_vars

\* What a successful request is meant to do to the collection.
Applied(books, e) ==
    LET p == parseInt(e.seg).n
    IN  CASE e.op = "create" -> Append(books, e.body.val)
          [] e.op = "delete" -> SubSeq(books, 1, p) \o SubSeq(books, p + 2, Len(books))
          [] e.op = "update" -> [books EXCEPT ![p + 1] = e.body.val]
          [] OTHER -> books

RECURSIVE Replay(_, _)
\* The changes of the successful exchanges of es, made one after the other.
Replay(books, es) ==
    IF es = <<>> THEN books
    ELSE Replay(IF Head(es).resp.success THEN Applied(books, Head(es)) ELSE books,
                Tail(es))

\* The first two logged requests overlapped and both reported success.
BothSucceeded ==
    /\ Len(log) >= 2
    /\ log[1].resp.success /\ log[2].resp.success
    /\ log[2].id \in log[1].with

\* The collection the clients found.
Found == readBooks(log[1].preJson, "ok")

\* C11, as claimed: when two overlapping requests that change the collection
\* have both reported success, the collection on disk shows the change of only
\* one of them, the other one lost.
C11_LostUpdate ==
    (BothSucceeded /\ Len(log) = 2) =>
        /\ ListAll(bookJson) \in {Applied(Found, log[1]), Applied(Found, log[2])}
        /\ ListAll(bookJson) # Replay(Found, log)

\* C11, amended: the load, change and save of a request run in one callback,
\* which no other request interleaves with; so the collection on disk always
\* shows the changes of all requests that reported success, in the order in
\* which they were answered.
C11_NoLostUpdate ==
    log # <<>> => ListAll(bookJson) = Replay(Found, log)

\* Two creates in flight together, the one that arrived second answered first.
C11_Witness ==
    /\ BothSucceeded /\ Len(log) = 2
    /\ log[1].op = "create" /\ log[2].op = "create"
    /\ log[1].id = 2 /\ log[2].id = 1
    /\ log[1].body # log[2].body

----------------------------------------------------------------------------
\* The server on a disk whose operations may fail. Each step meets one
\* condition of the disk, which `lastIo` keeps for the claims.

Met(io) == lastIo' = io /\ UNCHANGED <<arriving, log>>

ReadFaults == {"ok", "readFails"}
SaveFaults == {"ok", "readFails", "saveFails", "saveTruncates"}
WriteFaults == {"ok", "blobFails"}

FaultBodies == {JsonBody(BookA), JsonBody(BookBad)}
FaultSegs == {NumToString(0), NumToString(1)}
FaultModes == {NoMode, Mode(SyncWord)}

NextFault ==
    \/ Idle /\ \E io \in ReadFaults : ListBooks(io) /\ Met(io)
    \/ Idle /\ \E body \in FaultBodies, io \in IoKinds : CreateBook(body, io) /\ Met(io)
    \/ Idle /\ \E seg \in FaultSegs, io \in SaveFaults : DeleteBook(seg, io) /\ Met(io)
    \/ Idle /\ \E seg \in FaultSegs, io \in SaveFaults :
                  UpdateBook(seg, JsonBody(BookB), io) /\ Met(io)
    \/ Idle /\ \E seg \in FaultSegs, q \in FaultModes, io \in ReadFaults :
                  GetContent(seg, q, io) /\ Met(io)
    \/ Idle /\ \E seg \in FaultSegs :
                  PostContent(seg, JsonBody([content |-> ContentX])) /\ Met("ok")
    \/ \E call \in pending, io \in ReadFaults : ReadFileDone(call, io) /\ Met(io)
    \/ \E call \in pending, io \in WriteFaults : WriteFileDone(call, io) /\ Met(io)

SpecFault == Init /\ [][NextFault]_vars

----------------------------------------------------------------------------
\* Claims about the failing disk.

\* The collection file could not be read or parsed in the last step.
Unreadable == last.preJson.kind # "json" \/ lastIo = "readFails"

\* C12: when the collection file is missing, unreadable or not parseable,
\* readBooks yields the empty collection: the listing answers success with an
\* empty list and leaves the file and the text files as they were.
C12_UnreadableListsEmpty ==
    (last.op = "list" /\ Unreadable) =>
        /\ last.resp = RespList(<<>>)
        /\ last.resp.status = 200
        /\ StoresUnchanged

\* A listing of a collection file that a failed save had truncated.
C12_Witness ==
    /\ last.op = "list"
    /\ last.preJson = Corrupt
    /\ \E o \in Ordinals : files[o].exists

\* The last request was a create, update or delete that got as far as
\* calling writeBooks.
SaveReached ==
    LET index == parseInt(last.seg)
        books == readBooks(last.preJson, lastIo)
        inside == ~(NumLt(index, 0) \/ NumGe(index, Len(books)))
    IN  CASE last.op = "create" ->
                last.body.json /\ validateBookData(last.body.val) = <<>>
          [] last.op = "delete" -> inside
          [] last.op = "update" ->
                last.body.json /\ validateBookData(last.body.val) = <<>> /\ inside
          [] OTHER -> FALSE

SaveFailed == SaveReached /\ lastIo \in {"saveFails", "saveTruncates"}

\* C13: when writeBooks fails inside a create, an update or a delete, the
\* request is answered 500 and no text file is created, changed or removed.
C13_FailedSaveNoBlobEffect ==
    SaveFailed => last.resp.status = 500 /\ files = last.preFiles

\* A delete whose save failed although the text file of its record exists.
C13_Witness ==
    /\ SaveFailed
    /\ last.op = "delete"
    /\ FileAt(last.preFiles, bookFilePath(parseInt(last.seg))).exists

\* An operation on a store failed in the last step, other than the read of
\* the collection that readBooks recovers from.
IoFailed ==
    \/ SaveFailed
    \/ SaveReached /\ last.op = "create" /\ lastIo = "blobFails"
    \/ /\ ContentRoute("read") /\ lastIo = "readFails"
       /\ FileAt(last.preFiles, LastPath).exists
    \/ ContentRoute("write") /\ lastIo = "blobFails"

\* C14, as claimed: every failure of an operation on a store is answered as a
\* server fault (500), never as 404 or 400; this includes the failing
\* non-blocking read of a text file that exists and the failing write of the
\* placeholder in a create.
C14_IoFailureIsServerFault ==
    IoFailed => last.resp.status = 500

----------------------------------------------------------------------------
\* One client that creates and deletes records and reads their text files.
\* It titles its records 1, 2, 3, ... in the order it creates them, and `log`
\* keeps its creates and deletes, so that the record a text file was written
\* for stays known.

\* Largest number of creates and deletes of the client.
MaxChanges == 4

\* A logged create or delete, with the text files as the step left them.
OwnLogged(exchange, after) ==
    [op |-> exchange.op, seg |-> exchange.seg, body |-> exchange.body,
     resp |-> exchange.resp, preJson |-> exchange.preJson,
     preFiles |-> exchange.preFiles, postFiles |-> after]

Creates(es) == Cardinality({i \in DOMAIN es : es[i].op = "create"})

Titled(n) == [BookA EXCEPT !.book = NumToString(n)]

CreateOwn ==
    /\ Len(log) < MaxChanges
    /\ CreateBook(JsonBody(Titled(Creates(log) + 1)), "ok")
    /\ log' = Append(log, OwnLogged(last', files'))
    /\ UNCHANGED <<arriving, lastIo>>

DeleteOwn(seg) ==
    /\ Len(log) < MaxChanges
    /\ DeleteBook(seg, "ok")
    /\ log' = Append(log, OwnLogged(last', files'))
    /\ UNCHANGED <<arriving, lastIo>>

OwnSegs == {NumToString(k) : k \in 0..(MaxBooks - 1)}
OwnModes == {NoMode, Mode(SyncWord)}

NextOwn ==
    \/ Idle /\ CreateOwn
    \/ Idle /\ \E seg \in OwnSegs : DeleteOwn(seg)
    \/ Idle /\ \E seg \in OwnSegs, q \in OwnModes : GetContent(seg, q, "ok") /\ UNCHANGED aux
    \/ \E call \in pending : ReadFileDone(call, "ok") /\ UNCHANGED aux

SpecOwn == Init /\ [][NextOwn]_vars

\* The creates of es that wrote the text file of ordinal o: a successful create
\* writes book_<bookIndex>.txt, bookIndex being the length after the push.
Writers(es, o) ==
    {i \in DOMAIN es : /\ es[i].op = "create"
                       /\ es[i].resp.status = 201
                       /\ Len(ListAll(es[i].preJson)) + 1 = o}

\* The title of the record that the text file of ordinal o was last written for.
Owner(es, o) ==
    LET i == CHOOSE w \in Writers(es, o) : \A v \in Writers(es, o) : v <= w
    IN  es[i].body.val.book

Titles(books) == {books[i].book : i \in DOMAIN books}

\* C15, as claimed: over every sequence of creates and deletes, a text file
\* exists only while the record it was created alongside is in the collection.
C15_BlobDiesWithOwner ==
    \A o \in Ordinals :
        (files[o].exists /\ Writers(log, o) # {}) => Owner(log, o) \in Titles(After)

\* Every record of books has its own text file: the file named by the
\* record's 1-based ordinal exists and was last written for that record.
Aligned(es, books, fs) ==
    \A i \in DOMAIN books :
        fs[i].exists /\ Writers(es, i) # {} /\ Owner(es, i) = books[i].book

LastChange == log[Len(log)]
Earlier == SubSeq(log, 1, Len(log) - 1)

\* The last change was a successful delete in a collection whose records all
\* had their own text files.
DeletedAligned ==
    /\ log # <<>>
    /\ LastChange.op = "delete"
    /\ LastChange.resp.status = 200
    /\ Aligned(Earlier, ListAll(LastChange.preJson), LastChange.preFiles)

\* C16: text files are never renamed. After a successful delete(k) in a
\* collection of n records that each own book_<i+1>.txt, a read of position k
\* answers 404; a read of a position j > k returns the unchanged file of the
\* record that is now at position j-1 and not the file of the record at j;
\* and book_<n>.txt, when it was not the file removed, is left on disk where
\* no valid position names it.
C16_DeleteMisassociates ==
    DeletedAligned =>
        LET k == parseInt(LastChange.seg).n
            n == Len(ListAll(LastChange.preJson))
            valid == 0..(n - 2)
        IN  /\ Len(After) = n - 1
            /\ \A q \in valid : bookFilePath(Num(q)) # Num(n)
            /\ k # n - 1 => files[n] = LastChange.preFiles[n]
            /\ (ContentRoute("read") /\ Position \in valid) =>
                  /\ Position = k => last.resp.status = 404
                  /\ Position > k =>
                        /\ last.resp.status = 200
                        /\ last.resp.content = LastChange.preFiles[Position + 1].content
                        /\ Owner(log, Position + 1) = After[Position].book
                        /\ Owner(log, Position + 1) # After[Position + 1].book

\* The first of three records deleted, then position 1 read.
C16_Witness ==
    /\ DeletedAligned
    /\ parseInt(LastChange.seg).n = 0
    /\ ContentRoute("read")
    /\ Position = 1
    /\ Len(After) = 2
    /\ last.resp.status = 200

----------------------------------------------------------------------------
\* Claims about what the requests leave alone.

\* C17: a successful update of a position replaces exactly the record at that
\* position: the length and every other record stay as they were, and no text
\* file is created, changed or removed.
C17_UpdateReplacesOne ==
    (last.op = "update" /\ last.resp.status = 200 /\ HasPosition) =>
        /\ Len(After) = Len(Before)
        /\ After[Position + 1] = last.body.val
        /\ \A i \in DOMAIN Before : i # Position + 1 => After[i] = Before[i]
        /\ files = last.preFiles

\* The second of three records replaced by a different one.
C17_Witness ==
    /\ last.op = "update" /\ last.resp.status = 200
    /\ Position = 1
    /\ Len(Before) = 3
    /\ Before[2] # last.body.val
    /\ \E o \in Ordinals : files[o].exists

\* C18: a successful delete of a position removes book_<position+1>.txt when
\* it exists and succeeds just the same when it does not; every other text
\* file keeps its name and content.
C18_DeleteRemovesOneBlob ==
    (last.op = "delete" /\ last.resp.status = 200 /\ HasPosition) =>
        /\ ~files[Position + 1].exists
        /\ \A o \in Ordinals : o # Position + 1 => files[o] = last.preFiles[o]

\* A record deleted whose text file was already gone, another file present.
C18_Witness ==
    /\ last.op = "delete" /\ last.resp.status = 200 /\ HasPosition
    /\ ~last.preFiles[Position + 1].exists
    /\ \E o \in Ordinals : files[o].exists

\* C19, as claimed: a successful create changes no text file that existed
\* before it; what a write of content stored is changed only by a later write
\* or removed by a delete, never by the placeholder of a create.
C19_CreateKeepsExistingBlobs ==
    (last.op = "create" /\ last.resp.status = 201) =>
        \A o \in Ordinals : last.preFiles[o].exists => files[o] = last.preFiles[o]

\* C20, as claimed: a delete or a valid update whose index segment is not a
\* number answers 404 and leaves the collection and the text files unchanged.
C20_NaNIndexNotFound ==
    ((last.op = "delete" \/ (last.op = "update" /\ ValidBody)) /\ ~HasPosition) =>
        /\ last.resp = RespNoBook
        /\ StoresUnchanged

----------------------------------------------------------------------------
\* C22, as claimed: a request that changes the collection never replaces a
\* collection file it could not read: when the file exists but does not
\* parse, a valid create does not answer success while writing a collection
\* that holds the new record alone.
C22_UnreadableNotReplaced ==
    (last.op = "create" /\ ValidBody /\ last.preJson = Corrupt) =>
        ~(last.resp.status = 201 /\ bookJson = Json(<<last.body.val>>))

----------------------------------------------------------------------------
\* A content write in flight while other requests are handled. fs.writeFile
\* does its work in the thread pool at some moment after the handler returned,
\* and its callback runs in a later turn of the event loop; the handlers of
\* other requests run in between. `log` keeps the steps that change the text
\* files, each with the calls that were in flight when it ran.

\* The thread pool has written the file; the callback has not run yet.
WriteFileWritten(call) ==
    /\ call \in pending
    /\ call.call = "writeFile"
    /\ files' = writeFile(files, call.path, call.content)
    /\ pending' = (pending \ {call}) \cup {[call EXCEPT !.call = "writeFileWritten"]}
    /\ UNCHANGED <<bookJson, last, vData, vErrors>>

\* The callback of an fs.writeFile whose work was done earlier.
WriteFileAnswered(call) ==
    /\ call \in pending
    /\ call.call = "writeFileWritten"
    /\ pending' = pending \ {call}
    /\ last' = Exchange("write", call.seg, call.body, call.query, RespWritten)
    /\ UNCHANGED <<bookJson, files, vData, vErrors>>

NoCall == [call |-> "none", path |-> NaN, content |-> <<>>,
           seg |-> <<>>, body |-> NoBody, query |-> NoMode]

RaceLogged(exchange, inflight, call) ==
    [op |-> exchange.op, seg |-> exchange.seg, resp |-> exchange.resp,
     inflight |-> inflight, call |-> call]

RaceSegs == {NumToString(0), NumToString(1)}

RaceCreate ==
    /\ Len(log) < MaxChanges
    /\ CreateBook(JsonBody(BookA), "ok")
    /\ log' = Append(log, RaceLogged(last', pending, NoCall))
    /\ UNCHANGED <<arriving, lastIo>>

RaceDelete(seg) ==
    /\ Len(log) < MaxChanges
    /\ DeleteBook(seg, "ok")
    /\ log' = Append(log, RaceLogged(last', pending, NoCall))
    /\ UNCHANGED <<arriving, lastIo>>

RaceAnswered(call) ==
    /\ Len(log) < MaxChanges
    /\ WriteFileAnswered(call)
    /\ log' = Append(log, RaceLogged(last', pending \ {call}, call))
    /\ UNCHANGED <<arriving, lastIo>>

RaceDone(call) ==
    /\ Len(log) < MaxChanges
    /\ WriteFileDone(call, "ok")
    /\ log' = Append(log, RaceLogged(last', pending \ {call}, call))
    /\ UNCHANGED <<arriving, lastIo>>

NextRace ==
    \/ Idle /\ RaceCreate
    \/ Idle /\ \E seg \in RaceSegs :
                  PostContent(seg, JsonBody([content |-> ContentX])) /\ UNCHANGED aux
    \/ \E seg \in RaceSegs : RaceDelete(seg)
    \/ \E call \in pending : WriteFileWritten(call) /\ UNCHANGED aux
    \/ \E call \in pending : RaceAnswered(call)
    \/ \E call \in pending : RaceDone(call)

SpecRace == Init /\ [][NextRace]_vars

SameWrite(a, b) == a.path = b.path /\ a.content = b.content /\ a.seg = b.seg

DeleteBefore == log[Len(log) - 1]

\* A content write has just been answered, and the step before it was a
\* successful delete of the same position, handled while the write was in
\* flight.
WriteOutlivedDelete ==
    /\ Len(log) >= 2
    /\ last.op = "write" /\ last.resp.status = 200
    /\ LastChange.op = "write"
    /\ DeleteBefore.op = "delete" /\ DeleteBefore.resp.status = 200
    /\ bookFilePath(parseInt(DeleteBefore.seg)) = LastChange.call.path
    /\ \E c \in DeleteBefore.inflight : SameWrite(c, LastChange.call)

\* C21, as claimed: when a delete of position p is handled while a content
\* write to p is in flight, book_<p+1>.txt does not exist once both have
\* finished: the write never brings back the file the delete removed.
C21_DeleteNotUndone ==
    WriteOutlivedDelete => ~FileAt(files, LastChange.call.path).exists

====
